---- MODULE Spec2Model ----
(***************************************************************************)
(* Model of the 3D-LBP texture-feature core of Code/pipeline.py:           *)
(* neighbours, bin_to_dec, compute_LBP_3D, create_grid, create_grid_new,   *)
(* conv_3d_patch, conv_remain_points, LBP_3D and LBP_3DT.                  *)
(*                                                                         *)
(* A numpy array is a record [shape, data]; data maps every index triple   *)
(* of the shape to a float.  Floats are integers plus the value NaN, with  *)
(* the IEEE comparisons (every comparison with NaN is false).              *)
(***************************************************************************)
EXTENDS Integers, Sequences, FiniteSets, TLC

VARIABLES
    pc,              \* position of the running program
    grid,            \* the array handed to the function under execution
    n,               \* compute_LBP_3D: number of completed loop iterations
    histogram,       \* compute_LBP_3D: histogram
    count,           \* compute_LBP_3D: count
    decimal_number,  \* compute_LBP_3D: <<>> while unassigned, else <<code>>
    scale,           \* conv_3d_patch: scale
    new_grid,        \* conv_3d_patch result / conv_remain_points 2nd argument
    again,           \* conv_3d_patch applied to its own result
    removed_points,  \* conv_remain_points result
    df,              \* create_grid: the point table (sequence of rows)
    gridSize,        \* LBP_3D.gridSize
    raised,          \* the exception the last call ended with, or "none"
    samples,         \* extractor: self.samples
    features,        \* extractor: self.features
    returned,        \* extractor: value returned by the last extract()
    calls            \* extractor: number of extract() calls made

vars == <<pc, grid, n, histogram, count, decimal_number, scale, new_grid,
          again, removed_points, df, gridSize, raised, samples, features,
          returned, calls>>

----------------------------------------------------------------------------
(* Bounds *)

\* a grid of the family differs from the constant grid in at most MaxMarks cells
MaxMarks == 2

----------------------------------------------------------------------------
(* Floats and arrays *)

\* np.nan
NaN == -1

IsNan(x) == x = NaN

\* float >= : false when either side is NaN
Ge(a, b) == ~IsNan(a) /\ ~IsNan(b) /\ a >= b

\* float == : false when either side is NaN
FloatEq(a, b) == ~IsNan(a) /\ ~IsNan(b) /\ a = b

Cells(sh) == (0 .. sh[1] - 1) \X (0 .. sh[2] - 1) \X (0 .. sh[3] - 1)

\* np.full(shape, v)
Full(sh, v) == [shape |-> sh, data |-> [c \in Cells(sh) |-> v]]

\* numpy index normalisation: a negative index counts from the end
Wrap(x, dim) == IF x < 0 THEN x + dim ELSE x

\* whether numpy accepts index x on an axis of length dim (else IndexError)
InBounds(x, dim) == -dim <= x /\ x < dim

\* arr[i, j, k]
At(arr, i, j, k) ==
    arr.data[<<Wrap(i, arr.shape[1]), Wrap(j, arr.shape[2]), Wrap(k, arr.shape[3])>>]

\* range(a, b) has this many elements
RangeLen(a, b) == IF b > a THEN b - a ELSE 0

----------------------------------------------------------------------------
(* neighbours, bin_to_dec *)

neighbours(arr, i, j, k) ==
    << At(arr, i - 1, j, k), At(arr, i + 1, j, k),
       At(arr, i, j - 1, k), At(arr, i, j + 1, k),
       At(arr, i, j, k - 1), At(arr, i, j, k + 1) >>

\* int(binary_string, 3): a wrong radix
RECURSIVE int3(_)
int3(s) == IF s = <<>> THEN 0 ELSE 3 * int3(SubSeq(s, 1, Len(s) - 1)) + s[Len(s)]

\* int(binary_string, 2) on the digit string s, first digit most significant
RECURSIVE int2(_)
int2(s) == IF s = <<>> THEN 0 ELSE 2 * int2(SubSeq(s, 1, Len(s) - 1)) + s[Len(s)]

\* bin_to_dec comparing with > instead of >=
bin_to_dec_strict(arr, i, j, k, neighbour_list) ==
    int2([m \in 1 .. Len(neighbour_list) |->
            IF Ge(neighbour_list[m], At(arr, i, j, k))
               /\ neighbour_list[m] # At(arr, i, j, k) THEN 1 ELSE 0])

bin_to_dec(arr, i, j, k, neighbour_list) ==
    LET binary_result == [m \in 1 .. Len(neighbour_list) |->
                            IF Ge(neighbour_list[m], At(arr, i, j, k)) THEN 1 ELSE 0]
    IN  int2(binary_result)

----------------------------------------------------------------------------
(* compute_LBP_3D *)

\* number of iterations of the three nested loops
ScanLen(sh) ==
    RangeLen(1, sh[1] - 1) * RangeLen(1, sh[2] - 1) * RangeLen(1, sh[3] - 1)

\* (i, j, k) of iteration number m (from 0) of the nested loops
ScanVoxel(sh, m) ==
    LET r2 == RangeLen(1, sh[2] - 1)
        r3 == RangeLen(1, sh[3] - 1)
    IN  << 1 + (m \div (r2 * r3)), 1 + ((m \div r3) % r2), 1 + (m % r3) >>

\* the skip test without the centre
SkipsNeighboursOnly(arr, i, j, k, neighbour_list) ==
    \E m \in 1 .. Len(neighbour_list) : IsNan(neighbour_list[m])

\* the test of the `continue`
Skips(arr, i, j, k, neighbour_list) ==
    IsNan(At(arr, i, j, k))
    \/ \E m \in 1 .. Len(neighbour_list) : IsNan(neighbour_list[m])

\* one iteration of the loop body on accumulator acc = [histogram, count, decimal_number]
LBPBody(arr, v, acc) ==
    LET neighbour_list == neighbours(arr, v[1], v[2], v[3])
        d == bin_to_dec(arr, v[1], v[2], v[3], neighbour_list)
    IN  IF Skips(arr, v[1], v[2], v[3], neighbour_list)
        THEN acc
        ELSE [histogram |-> [acc.histogram EXCEPT ![d] = @ + 1],
              count |-> acc.count + 1,
              decimal_number |-> <<d>>]

LBPStart == [histogram |-> [b \in 0 .. 63 |-> 0], count |-> 0, decimal_number |-> <<>>]

\* the whole function: the loop run to its end
RECURSIVE LBPLoop(_, _, _)
LBPLoop(arr, m, acc) ==
    IF m >= ScanLen(arr.shape) THEN acc
    ELSE LBPLoop(arr, m + 1, LBPBody(arr, ScanVoxel(arr.shape, m), acc))

compute_LBP_3D(arr) == LBPLoop(arr, 0, LBPStart)

----------------------------------------------------------------------------
(* Input grids *)

RECURSIVE SubsetsUpTo(_, _)
SubsetsUpTo(S, m) ==
    IF m = 0 THEN {{}}
    ELSE LET P == SubsetsUpTo(S, m - 1) IN P \cup {p \cup {x} : p \in P, x \in S}

\* what a marked cell holds: undefined, or a value above the base value 2
MarkVals == {NaN, 3}

\* the grids that differ from the constant grid 2 in at most MaxMarks cells
MarkedGrids(sh) ==
    { [shape |-> sh,
       data |-> [c \in Cells(sh) |-> IF c \in DOMAIN mk THEN mk[c] ELSE 2]] :
      mk \in UNION {[M -> MarkVals] : M \in SubsetsUpTo(Cells(sh), MaxMarks)} }

LBPShapes == {<<1, 1, 1>>, <<2, 3, 3>>, <<3, 3, 3>>, <<4, 3, 3>>}

\* the values of the encoder's inputs
EncVals == {3, 5, 7}

\* a 3x3x3 array undefined but for the centre c and its six neighbours nb,
\* nb in the order x-1, x+1, y-1, y+1, z-1, z+1
CrossGrid(c, nb) ==
    [shape |-> <<3, 3, 3>>,
     data |-> [v \in Cells(<<3, 3, 3>>) |->
                 CASE v = <<1, 1, 1>> -> c
                   [] v = <<0, 1, 1>> -> nb[1]
                   [] v = <<2, 1, 1>> -> nb[2]
                   [] v = <<1, 0, 1>> -> nb[3]
                   [] v = <<1, 2, 1>> -> nb[4]
                   [] v = <<1, 1, 0>> -> nb[5]
                   [] v = <<1, 1, 2>> -> nb[6]
                   [] OTHER -> NaN]]

\* the grids with a different value in every cell and at most MaxMarks cells undefined
HoledGrids(sh) ==
    { [shape |-> sh,
       data |-> [c \in Cells(sh) |->
                   IF c \in H THEN NaN ELSE 1 + c[1] * sh[2] * sh[3] + c[2] * sh[3] + c[3]]] :
      H \in SubsetsUpTo(Cells(sh), MaxMarks) }

PatchShapes == {<<1, 1, 1>>, <<2, 3, 3>>, <<3, 3, 3>>, <<4, 3, 3>>}

\* every array of shape sh over the values V
AllArrays(sh, V) == { [shape |-> sh, data |-> d] : d \in [Cells(sh) -> V] }

RemainVals == {NaN, 1, 2}

RemainShapes == {<<1, 1, 1>>, <<2, 1, 1>>, <<1, 2, 1>>, <<1, 1, 2>>, <<2, 2, 1>>}

----------------------------------------------------------------------------
(* conv_3d_patch *)

\* number of iterations of the three nested loops
PatchLen(sh) ==
    RangeLen(0, sh[1] - 2) * RangeLen(0, sh[2] - 2) * RangeLen(0, sh[3] - 2)

\* (i, j, k) of iteration number m (from 0)
PatchStart(sh, m) ==
    LET r2 == RangeLen(0, sh[2] - 2)
        r3 == RangeLen(0, sh[3] - 2)
    IN  << m \div (r2 * r3), (m \div r3) % r2, m % r3 >>

\* the cells of the slice [i:i+scale, j:j+scale, k:k+scale]; a slice stops at the
\* end of the axis
SliceCells(sh, st, sc) ==
    {c \in Cells(sh) : \A d \in 1 .. 3 : st[d] <= c[d] /\ c[d] < st[d] + sc}

\* a body that writes the patch's first cell only
PatchBodyAnchorOnly(a, st, sc) ==
    IF \A c \in SliceCells(a.grid.shape, st, sc) : ~IsNan(a.grid.data[c])
    THEN [a EXCEPT !.new_grid.data =
            [c \in DOMAIN @ |-> IF c = st THEN a.grid.data[c] ELSE @[c]]]
    ELSE a

\* one iteration on a = [grid, new_grid], the two arrays the function holds
PatchBody(a, st, sc) ==
    IF \A c \in SliceCells(a.grid.shape, st, sc) : ~IsNan(a.grid.data[c])
    THEN [a EXCEPT !.new_grid.data =
            [c \in DOMAIN @ |->
                IF c \in SliceCells(a.grid.shape, st, sc) THEN a.grid.data[c] ELSE @[c]]]
    ELSE a

RECURSIVE PatchLoop(_, _, _)
PatchLoop(a, sc, m) ==
    IF m >= PatchLen(a.grid.shape) THEN a
    ELSE PatchLoop(PatchBody(a, PatchStart(a.grid.shape, m), sc), sc, m + 1)

\* the arrays at return: grid as the caller sees it afterwards, and the result
conv_3d_patch(g, sc) == PatchLoop([grid |-> g, new_grid |-> Full(g.shape, NaN)], sc, 0)

----------------------------------------------------------------------------
(* conv_remain_points *)

\* a body that copies the filtered value
RemainCellFiltered(a, b) == IF FloatEq(a, b) THEN NaN ELSE b

\* the loop body on one cell: a = grid[i,j,k], b = new_grid[i,j,k]
RemainCell(a, b) == IF FloatEq(a, b) THEN NaN ELSE a

conv_remain_points(g, ng) ==
    [shape |-> g.shape,
     data |-> [c \in Cells(g.shape) |-> RemainCell(g.data[c], ng.data[c])]]

----------------------------------------------------------------------------
(* create_grid, LBP_3D.__init__ *)
(* A coordinate is a number of halves: X = 3 is the coordinate 1.5. *)

Abs(x) == IF x < 0 THEN -x ELSE x

Max(a, b) == IF a >= b THEN a ELSE b

\* int(c) of the coordinate of h halves: truncation towards zero
Trunc(h) == IF h >= 0 THEN h \div 2 ELSE -((-h) \div 2)

\* math.ceil(c) of the coordinate of h halves
Ceil(h) == (h + 1) \div 2

\* one iteration of the loop over the rows, on a = [grid, raised]
CreateGridRow(a, row) ==
    LET x == Trunc(row.X)
        y == Trunc(row.Y)
        z == Trunc(row.Z)
    IN  IF a.raised # "none" \/ IsNan(row.SV) THEN a
        ELSE IF /\ InBounds(x, a.grid.shape[1])
                /\ InBounds(y, a.grid.shape[2])
                /\ InBounds(z, a.grid.shape[3])
             THEN [a EXCEPT !.grid.data[<<Wrap(x, a.grid.shape[1]),
                                          Wrap(y, a.grid.shape[2]),
                                          Wrap(z, a.grid.shape[3])>>] = row.SV]
             ELSE [a EXCEPT !.raised = "IndexError"]

RECURSIVE CreateGridLoop(_, _, _)
CreateGridLoop(a, t, r) ==
    IF r > Len(t) THEN a ELSE CreateGridLoop(CreateGridRow(a, t[r]), t, r + 1)

\* [grid, raised]: the array built, and the exception that ended the call if any
create_grid(t, grid_size) ==
    CreateGridLoop([grid |-> Full(<<grid_size[1] + 1, grid_size[2] + 1, grid_size[3] + 1>>, NaN),
                    raised |-> "none"], t, 1)

\* max(abs(column)) in halves, column c of table t (t not empty)
MaxAbs(t, c) == CHOOSE m \in {Abs(t[r][c]) : r \in 1 .. Len(t)} :
                    \A r \in 1 .. Len(t) : Abs(t[r][c]) <= m

\* the loop of __init__ from sample number i on, with x, y, z so far
RECURSIVE SizeLoop(_, _, _)
SizeLoop(ss, i, xyz) ==
    IF i > Len(ss) THEN xyz
    ELSE SizeLoop(ss, i + 1,
                  << Ceil(Max(2 * xyz[1], MaxAbs(ss[i].table, "X"))),
                     Ceil(Max(2 * xyz[2], MaxAbs(ss[i].table, "Y"))),
                     Ceil(Max(2 * xyz[3], MaxAbs(ss[i].table, "Z"))) >>)

\* self.gridSize computed by LBP_3D.__init__ and LBP_3DT.__init__
GridSizeOf(ss) == SizeLoop(ss, 1, <<-1, -1, -1>>)

----------------------------------------------------------------------------
(* create_grid_new *)

\* sorted(S) for a set of numbers
SortedSeq(S) ==
    [i \in 1 .. Cardinality(S) |->
        CHOOSE x \in S : Cardinality({y \in S : y < x}) = i - 1]

\* the rows of t matching x, y, z, by row number
Matching(t, x, y, z) == {r \in 1 .. Len(t) : t[r].X = x /\ t[r].Y = y /\ t[r].Z = z}

create_grid_new(t) ==
    LET xs == SortedSeq({t[r].X : r \in 1 .. Len(t)})
        ys == SortedSeq({t[r].Y : r \in 1 .. Len(t)})
        z_val == SortedSeq({t[r].Z : r \in 1 .. Len(t)})
        sh == <<Len(xs), Len(ys), Len(z_val)>>
    IN  [shape |-> sh,
         data |-> [c \in Cells(sh) |->
                     LET m == Matching(t, xs[c[1] + 1], ys[c[2] + 1], z_val[c[3] + 1])
                     IN  IF m = {} THEN NaN
                         ELSE t[CHOOSE r \in m : \A q \in m : r <= q].SV]]

----------------------------------------------------------------------------
(* LBP_3D.extract, LBP_3DT.extract *)

\* range(14)
NumFrames == 14

\* numpy's a / c on floats, kept as the fraction: c = 0 gives no exception but
\* nan (a = 0) or inf, which the fraction with denominator 0 stands for
TrueDivide(a, c) == <<a, c>>

\* np.array(hist) / count
Normalized(hist, c) == [b \in DOMAIN hist |-> TrueDivide(hist[b], c)]

\* the feature row of LBP_3D: columns 0..63, then Label
StaticRow(sample, size) ==
    LET a == create_grid(sample.table, size)
        r == compute_LBP_3D(a.grid)
    IN  [raised |-> a.raised,
         row |-> [b \in 0 .. 64 |->
                    IF b = 64 THEN sample.label
                    ELSE Normalized(r.histogram, r.count)[b]]]

\* the loop of LBP_3D.extract from sample number i on, on a = [features, raised]
RECURSIVE StaticLoop(_, _, _, _)
StaticLoop(a, ss, size, i) ==
    IF i > Len(ss) \/ a.raised # "none" THEN a
    ELSE LET f == StaticRow(ss[i], size)
         IN  StaticLoop(IF f.raised # "none" THEN [a EXCEPT !.raised = f.raised]
                        ELSE [a EXCEPT !.features = Append(@, f.row)],
                        ss, size, i + 1)

\* df[df['Frame'] == f]
FrameOf(t, f) == SelectSeq(t, LAMBDA row : row.Frame = f)

\* the column of frame f of a sample's block
FrameColumn(sample, f) ==
    LET r == compute_LBP_3D(create_grid_new(FrameOf(sample.table, f)))
    IN  Normalized(r.histogram, r.count)

\* the (feat, label) pair of LBP_3DT: feat has one column per frame
TemporalBlock(sample) ==
    << [f \in 0 .. NumFrames - 1 |-> FrameColumn(sample, f)], sample.label >>

RECURSIVE TemporalLoop(_, _, _)
TemporalLoop(feats, ss, i) ==
    IF i > Len(ss) THEN feats
    ELSE TemporalLoop(Append(feats, TemporalBlock(ss[i])), ss, i + 1)

----------------------------------------------------------------------------
(* Values of the variables a specification does not use *)

NoArray == Full(<<0, 0, 0>>, NaN)

IdleLBP == n = 0 /\ histogram = LBPStart.histogram /\ count = 0 /\ decimal_number = <<>>
IdlePatch == scale = 0 /\ new_grid = NoArray /\ again = NoArray
IdleRemain == removed_points = NoArray
IdleGrid == df = <<>> /\ gridSize = <<0, 0, 0>> /\ raised = "none"
IdleExtract == samples = <<>> /\ features = <<>> /\ returned = <<>> /\ calls = 0

----------------------------------------------------------------------------
(* SpecLBP: compute_LBP_3D(grid), one loop iteration per step *)

InitLBP ==
    /\ pc = "scan"
    /\ \E sh \in LBPShapes : grid \in MarkedGrids(sh)
    /\ IdleLBP /\ IdlePatch /\ IdleRemain /\ IdleGrid /\ IdleExtract

ScanStep ==
    /\ pc = "scan"
    /\ n < ScanLen(grid.shape)
    /\ LET acc == LBPBody(grid, ScanVoxel(grid.shape, n),
                          [histogram |-> histogram, count |-> count,
                           decimal_number |-> decimal_number])
       IN  /\ histogram' = acc.histogram
           /\ count' = acc.count
           /\ decimal_number' = acc.decimal_number
    /\ n' = n + 1
    /\ UNCHANGED <<pc, grid, scale, new_grid, again, removed_points, df,
                   gridSize, raised, samples, features, returned, calls>>

ScanReturn ==
    /\ pc = "scan"
    /\ n >= ScanLen(grid.shape)
    /\ pc' = "returned"
    /\ UNCHANGED <<grid, n, histogram, count, decimal_number, scale, new_grid,
                   again, removed_points, df, gridSize, raised, samples,
                   features, returned, calls>>

NextLBP == ScanStep \/ ScanReturn

SpecLBP == InitLBP /\ [][NextLBP]_vars

\* the cells of the claims: interior, and defined with all six axis neighbours
Interior(sh) ==
    {v \in Cells(sh) : \A d \in 1 .. 3 : 1 <= v[d] /\ v[d] <= sh[d] - 2}

AxisOffsets == << <<-1, 0, 0>>, <<1, 0, 0>>, <<0, -1, 0>>, <<0, 1, 0>>,
                 <<0, 0, -1>>, <<0, 0, 1>> >>

Shift(v, o) == <<v[1] + o[1], v[2] + o[2], v[3] + o[3]>>

Contributing(g) ==
    {v \in Interior(g.shape) :
        /\ g.data[v] # NaN
        /\ \A m \in 1 .. 6 : g.data[Shift(v, AxisOffsets[m])] # NaN}

\* position of interior voxel v in the scan, x slowest and z fastest
LexRank(sh, v) ==
    (v[1] - 1) * (sh[2] - 2) * (sh[3] - 2) + (v[2] - 1) * (sh[3] - 2) + (v[3] - 1)

RECURSIVE SumOver(_, _)
SumOver(h, S) ==
    IF S = {} THEN 0
    ELSE LET b == CHOOSE x \in S : TRUE IN h[b] + SumOver(h, S \ {b})

\* the sum of all bins (the bins holding 0 add nothing)
HistSum(h) == SumOver(h, {b \in DOMAIN h : h[b] # 0})

\* C1: compute_LBP_3D counts a voxel exactly when it is interior (1 <= index
\* <= dimension-2 on each axis) and it and its six axis neighbours are
\* defined: after m iterations count is the number of such voxels among the
\* first m interior voxels, at return it is the number of all of them, the
\* histogram holds as many entries, and nothing else is ever counted.
C1_CountsExactlyContributing ==
    pc \in {"scan", "returned"} =>
        LET all == Contributing(grid)
            done == Cardinality({v \in all : LexRank(grid.shape, v) < n})
        IN  /\ count = done
            /\ HistSum(histogram) = done
            /\ pc = "returned" => count = Cardinality(all)

\* a scan that returned having counted one voxel and skipped another
C1_Witness ==
    /\ pc = "returned"
    /\ Cardinality(Interior(grid.shape)) = 2
    /\ count = 1
    /\ \E v \in Interior(grid.shape) : grid.data[v] # NaN /\ v \notin Contributing(grid)

\* C2: at every step of the scan and at its return the histogram has exactly
\* the 64 bins 0..63, every code used as a bin index is in 0..63, and the
\* bins sum to the valid count.
C2_HistogramShape ==
    pc \in {"scan", "returned"} =>
        /\ DOMAIN histogram = 0 .. 63
        /\ \A b \in 0 .. 63 : histogram[b] \in Nat
        /\ decimal_number # <<>> => decimal_number[1] \in 0 .. 63
        /\ HistSum(histogram) = count

\* two voxels counted, under different codes, before the return
C2_Witness ==
    /\ pc = "scan"
    /\ count = 2
    /\ \E b \in 0 .. 62 : histogram[b] = 1

----------------------------------------------------------------------------
(* SpecEnc: bin_to_dec(arr, 1, 1, 1, neighbours(arr, 1, 1, 1)) *)

InitEnc ==
    /\ pc = "encode"
    /\ \E c \in EncVals : \E nb \in [1 .. 6 -> EncVals] : grid = CrossGrid(c, nb)
    /\ IdleLBP /\ IdlePatch /\ IdleRemain /\ IdleGrid /\ IdleExtract

Encode ==
    /\ pc = "encode"
    /\ decimal_number' = <<bin_to_dec(grid, 1, 1, 1, neighbours(grid, 1, 1, 1))>>
    /\ pc' = "encoded"
    /\ UNCHANGED <<grid, n, histogram, count, scale, new_grid, again,
                   removed_points, df, gridSize, raised, samples, features,
                   returned, calls>>

NextEnc == Encode

SpecEnc == InitEnc /\ [][NextEnc]_vars

RECURSIVE Pow2(_)
Pow2(e) == IF e = 0 THEN 1 ELSE 2 * Pow2(e - 1)

\* bit of neighbour m (0 for x-1 ... 5 for z+1) of voxel v: 1 when neighbour >= centre
ClaimBit(g, v, m) == IF g.data[Shift(v, AxisOffsets[m + 1])] >= g.data[v] THEN 1 ELSE 0

RECURSIVE ClaimCode(_, _, _)
ClaimCode(g, v, m) ==
    IF m > 5 THEN 0 ELSE ClaimBit(g, v, m) * Pow2(5 - m) + ClaimCode(g, v, m + 1)

\* C3: for a fully defined centre and neighbours in the order x-1, x+1, y-1,
\* y+1, z-1, z+1 the code is the integer whose bit for neighbour m (m = 0 most
\* significant, m = 5 least) is 1 exactly when the neighbour >= the centre;
\* centre 5 with neighbours 3,3,7,7,3,7 gives 13 and all-equal values give 63.
C3_CodeBits ==
    pc = "encoded" =>
        /\ decimal_number = <<ClaimCode(grid, <<1, 1, 1>>, 0)>>
        /\ grid = CrossGrid(5, <<3, 3, 7, 7, 3, 7>>) => decimal_number = <<13>>
        /\ (\E c \in EncVals : grid = CrossGrid(c, <<c, c, c, c, c, c>>))
              => decimal_number = <<63>>

\* the scenario of the specification has been encoded
C3_Witness ==
    /\ pc = "encoded"
    /\ grid = CrossGrid(5, <<3, 3, 7, 7, 3, 7>>)
    /\ decimal_number = <<13>>

----------------------------------------------------------------------------
(* SpecPatch: new_grid = conv_3d_patch(grid, scale); again = conv_3d_patch(new_grid, scale) *)

\* patch edge lengths tried
MaxScale == 4

InitPatch ==
    /\ pc = "filter"
    /\ \E sh \in PatchShapes : grid \in HoledGrids(sh)
    /\ scale \in 1 .. MaxScale
    /\ new_grid = NoArray /\ again = NoArray
    /\ IdleLBP /\ IdleRemain /\ IdleGrid /\ IdleExtract

Filter ==
    /\ pc = "filter"
    /\ LET a == conv_3d_patch(grid, scale)
       IN  grid' = a.grid /\ new_grid' = a.new_grid
    /\ pc' = "filtered"
    /\ UNCHANGED <<n, histogram, count, decimal_number, scale, again,
                   removed_points, df, gridSize, raised, samples, features,
                   returned, calls>>

FilterAgain ==
    /\ pc = "filtered"
    /\ LET a == conv_3d_patch(new_grid, scale)
       IN  new_grid' = a.grid /\ again' = a.new_grid
    /\ pc' = "refiltered"
    /\ UNCHANGED <<grid, n, histogram, count, decimal_number, scale,
                   removed_points, df, gridSize, raised, samples, features,
                   returned, calls>>

NextPatch == Filter \/ FilterAgain

SpecPatch == InitPatch /\ [][NextPatch]_vars

\* the s x s x s blocks wholly inside the bounds
BlockStarts(sh, s) ==
    {st \in Cells(sh) : \A d \in 1 .. 3 : st[d] + s <= sh[d]}

Block(st, s) == (st[1] .. st[1] + s - 1) \X (st[2] .. st[2] + s - 1) \X (st[3] .. st[3] + s - 1)

\* the filter as specified: a cell keeps its value exactly when it lies in a
\* block of edge s wholly inside the bounds and wholly defined
ClaimFilter(g, s) ==
    [shape |-> g.shape,
     data |-> [c \in Cells(g.shape) |->
                 IF \E st \in BlockStarts(g.shape, s) :
                       /\ c \in Block(st, s)
                       /\ \A b \in Block(st, s) : g.data[b] # NaN
                 THEN g.data[c] ELSE NaN]]

\* C7: for every grid and every edge length s >= 1, conv_3d_patch(grid, s)
\* returns a grid of the same shape in which a cell is defined (with the
\* input's value) exactly when it lies in some s x s x s block wholly inside
\* the bounds and wholly defined; every in-bounds start is examined.
C7_FilterAllScales ==
    pc \in {"filtered", "refiltered"} => new_grid = ClaimFilter(grid, scale)

\* C8: the patch filter is idempotent, conv_3d_patch(conv_3d_patch(g)) equals
\* conv_3d_patch(g) cell by cell, and a call leaves its input grid unchanged.
C8_Idempotent ==
    /\ [](pc = "refiltered" => again = new_grid)
    /\ [][grid' = grid /\ (pc = "filtered" => new_grid' = new_grid)]_vars

\* a filter that removed some defined cells and kept others, applied twice
C8_Witness ==
    /\ pc = "refiltered"
    /\ scale = 3
    /\ \E c \in Cells(grid.shape) : grid.data[c] # NaN /\ new_grid.data[c] = NaN
    /\ \E c \in Cells(grid.shape) : again.data[c] # NaN

----------------------------------------------------------------------------
(* SpecRemain: removed_points = conv_remain_points(grid, new_grid) *)

InitRemain ==
    /\ pc = "diff"
    /\ \E sh \in RemainShapes :
          /\ grid \in AllArrays(sh, RemainVals)
          /\ new_grid \in AllArrays(sh, RemainVals)
    /\ removed_points = NoArray
    /\ scale = 0 /\ again = NoArray
    /\ IdleLBP /\ IdleGrid /\ IdleExtract

Diff ==
    /\ pc = "diff"
    /\ removed_points' = conv_remain_points(grid, new_grid)
    /\ pc' = "diffed"
    /\ UNCHANGED <<grid, n, histogram, count, decimal_number, scale, new_grid,
                   again, df, gridSize, raised, samples, features, returned, calls>>

NextRemain == Diff

SpecRemain == InitRemain /\ [][NextRemain]_vars

\* C6: in conv_remain_points(grid, filtered) a cell is defined exactly when
\* the original cell is defined and its filtered value differs from it
\* (undefined and undefined count as equal), and then holds the original value.
C6_RemovedPoints ==
    pc = "diffed" =>
        /\ removed_points.shape = grid.shape
        /\ DOMAIN removed_points.data = Cells(grid.shape)
        /\ \A c \in Cells(grid.shape) :
              /\ removed_points.data[c] # NaN
                    <=> (grid.data[c] # NaN /\ new_grid.data[c] # grid.data[c])
              /\ removed_points.data[c] # NaN => removed_points.data[c] = grid.data[c]

\* a diff with a cell undefined in both grids, a removed cell and a changed cell
C6_Witness ==
    /\ pc = "diffed"
    /\ \E c \in Cells(grid.shape) :
          grid.data[c] = NaN /\ new_grid.data[c] = NaN /\ removed_points.data[c] = NaN
    /\ \E c \in Cells(grid.shape) :
          grid.data[c] # NaN /\ new_grid.data[c] = NaN /\ removed_points.data[c] = grid.data[c]
    /\ \E c \in Cells(grid.shape) :
          grid.data[c] = 1 /\ new_grid.data[c] = 2 /\ removed_points.data[c] = 1

----------------------------------------------------------------------------
(* SpecGrid: create_grid(df, size), with the size LBP_3D derives or a given one *)

\* largest X coordinate of a row, in halves
MaxCoord == 3

\* rows of a table
MaxRows == 2

\* largest grid size of a direct call
MaxSize == 2

Rows == [X : -MaxCoord .. MaxCoord, Y : {-2, 0, 2}, Z : {0, 2}, SV : {NaN, 1, 2}]

Tables == UNION {[1 .. l -> Rows] : l \in 1 .. MaxRows}

InitGrid ==
    /\ pc = "table"
    /\ df \in Tables
    /\ grid = NoArray /\ gridSize = <<0, 0, 0>> /\ raised = "none"
    /\ IdleLBP /\ IdlePatch /\ IdleRemain /\ IdleExtract

\* LBP_3D([(df, label)])
Construct ==
    /\ pc = "table"
    /\ gridSize' = GridSizeOf(<<[table |-> df, label |-> 0]>>)
    /\ pc' = "constructed"
    /\ UNCHANGED <<grid, n, histogram, count, decimal_number, scale, new_grid,
                   again, removed_points, df, raised, samples, features,
                   returned, calls>>

\* create_grid(df, self.gridSize)
CreateGridDerived ==
    /\ pc = "constructed"
    /\ LET a == create_grid(df, gridSize)
       IN  grid' = a.grid /\ raised' = a.raised
    /\ pc' = "built"
    /\ UNCHANGED <<n, histogram, count, decimal_number, scale, new_grid, again,
                   removed_points, df, gridSize, samples, features, returned, calls>>

\* create_grid(df, size) with a size of the caller's
CreateGridDirect ==
    /\ pc = "table"
    /\ \E sx \in 0 .. MaxSize :
          /\ gridSize' = <<sx, 1, 1>>
          /\ LET a == create_grid(df, <<sx, 1, 1>>)
             IN  grid' = a.grid /\ raised' = a.raised
    /\ pc' = "built_direct"
    /\ UNCHANGED <<n, histogram, count, decimal_number, scale, new_grid, again,
                   removed_points, df, samples, features, returned, calls>>

NextGrid == Construct \/ CreateGridDerived \/ CreateGridDirect

SpecGrid == InitGrid /\ [][NextGrid]_vars

\* the integer-truncated coordinate of a row
RowIndex(row) == <<Trunc(row.X), Trunc(row.Y), Trunc(row.Z)>>

\* the row's truncated coordinate lies outside 0..size on some axis
OutOfGrid(row, size) ==
    \E d \in 1 .. 3 : RowIndex(row)[d] < 0 \/ RowIndex(row)[d] > size[d]

RECURSIVE WithoutOutOfGrid(_, _)
WithoutOutOfGrid(t, size) ==
    IF t = <<>> THEN <<>>
    ELSE IF OutOfGrid(Head(t), size) THEN WithoutOutOfGrid(Tail(t), size)
         ELSE <<Head(t)>> \o WithoutOutOfGrid(Tail(t), size)

\* C5: create_grid, given rows whose integer-truncated coordinate lies
\* outside 0..size on some axis, raises no error and returns the grid it
\* returns for the table without those rows.
C5_OutOfBoundsDropped ==
    pc \in {"built", "built_direct"} =>
        /\ raised = "none"
        /\ grid = create_grid(WithoutOutOfGrid(df, gridSize), gridSize).grid

\* (index, value) of the defined cells of g
CellPairs(g) == {<<c, g.data[c]>> : c \in {c \in Cells(g.shape) : g.data[c] # NaN}}

\* (truncated coordinate, value) of the rows of t with a defined value, the
\* last such row of a coordinate standing for all of them
RowPairs(t) ==
    {<<RowIndex(t[r]), t[r].SV>> :
        r \in {r \in 1 .. Len(t) :
                /\ t[r].SV # NaN
                /\ \A q \in r + 1 .. Len(t) :
                      t[q].SV = NaN \/ RowIndex(t[q]) # RowIndex(t[r])}}

\* C9: round trip of create_grid at the size LBP_3D derives from the table:
\* the (index, value) pairs of the defined cells are the (coordinate, value)
\* pairs of the rows with a defined value, rows of one coordinate collapsing
\* to the last written; rows of different coordinates never share a cell.
\* A row's coordinate is taken as create_grid takes it, truncated to an integer.
C9_RoundTrip ==
    pc = "built" => raised = "none" /\ CellPairs(grid) = RowPairs(df)

----------------------------------------------------------------------------
(* SpecExtract: an LBP_3D or LBP_3DT object and its extract() calls *)

\* samples of an extractor
MaxSamples == 2

\* extract() calls on one object
MaxCalls == 2

\* rows of frame f: a centre at (1,1,1) of value c and its six neighbours nb
CrossRows(f, c, nb) ==
    << [X |-> 2, Y |-> 2, Z |-> 2, SV |-> c, Frame |-> f],
       [X |-> 0, Y |-> 2, Z |-> 2, SV |-> nb[1], Frame |-> f],
       [X |-> 4, Y |-> 2, Z |-> 2, SV |-> nb[2], Frame |-> f],
       [X |-> 2, Y |-> 0, Z |-> 2, SV |-> nb[3], Frame |-> f],
       [X |-> 2, Y |-> 4, Z |-> 2, SV |-> nb[4], Frame |-> f],
       [X |-> 2, Y |-> 2, Z |-> 0, SV |-> nb[5], Frame |-> f],
       [X |-> 2, Y |-> 2, Z |-> 4, SV |-> nb[6], Frame |-> f] >>

StaticTables ==
    { CrossRows(0, 5, <<5, 5, 5, 5, 5, 5>>),
      CrossRows(0, 5, <<3, 3, 7, 7, 3, 7>>),
      CrossRows(0, NaN, <<5, 5, 5, 5, 5, 5>>),
      <<[X |-> 4, Y |-> 4, Z |-> 4, SV |-> 5, Frame |-> 0]>> }

\* the cross in each of the frames 0 .. k-1
RECURSIVE Framed(_)
Framed(k) ==
    IF k = 0 THEN <<>>
    ELSE Framed(k - 1) \o CrossRows(k - 1, 5, <<3, 3, 7, 7, 3, 7>>)

TemporalTables == {Framed(NumFrames), Framed(NumFrames - 4)}

SampleLists(T) ==
    UNION {[1 .. l -> [table : T, label : {0, 1}]] : l \in 1 .. MaxSamples}

InitExtract ==
    /\ \/ pc = "LBP_3D" /\ samples \in SampleLists(StaticTables)
       \/ pc = "LBP_3DT" /\ samples \in SampleLists(TemporalTables)
    /\ gridSize = GridSizeOf(samples)
    /\ features = <<>> /\ returned = <<>> /\ calls = 0
    /\ grid = NoArray /\ df = <<>> /\ raised = "none"
    /\ IdleLBP /\ IdlePatch /\ IdleRemain

\* LBP_3D.extract()
Extract3D ==
    /\ pc = "LBP_3D"
    /\ calls < MaxCalls
    /\ LET a == StaticLoop([features |-> features, raised |-> "none"],
                           samples, gridSize, 1)
       IN  /\ features' = a.features
           /\ raised' = a.raised
           /\ returned' = IF a.raised = "none" THEN a.features ELSE returned
    /\ calls' = calls + 1
    /\ UNCHANGED <<pc, grid, n, histogram, count, decimal_number, scale,
                   new_grid, again, removed_points, df, gridSize, samples>>

\* LBP_3DT.extract()
Extract3DT ==
    /\ pc = "LBP_3DT"
    /\ calls < MaxCalls
    /\ features' = TemporalLoop(features, samples, 1)
    /\ returned' = features'
    /\ raised' = "none"
    /\ calls' = calls + 1
    /\ UNCHANGED <<pc, grid, n, histogram, count, decimal_number, scale,
                   new_grid, again, removed_points, df, gridSize, samples>>

NextExtract == Extract3D \/ Extract3DT

SpecExtract == InitExtract /\ [][NextExtract]_vars

\* the valid count of a static sample, and of frame f of a temporal sample
StaticCount(sample) == compute_LBP_3D(create_grid(sample.table, gridSize).grid).count

FrameCount(sample, f) == compute_LBP_3D(create_grid_new(FrameOf(sample.table, f))).count

HasZeroCount ==
    \E r \in 1 .. Len(samples) :
        IF pc = "LBP_3D" THEN StaticCount(samples[r]) = 0
        ELSE \E f \in 0 .. NumFrames - 1 : FrameCount(samples[r], f) = 0

\* a quotient by a zero count
ByZero(q) == q[2] = 0

\* the table holds an entry divided by a zero count
HoldsByZero(fs) ==
    \E r \in 1 .. Len(fs) :
        IF pc = "LBP_3D" THEN \E b \in 0 .. 63 : ByZero(fs[r][b])
        ELSE \E f \in 0 .. NumFrames - 1 : \E b \in 0 .. 63 : ByZero(fs[r][1][f][b])

\* C4: when a sample (static) or a frame of a sample (temporal) has
\* valid_count = 0, extract() fails with the 'no valid voxels' error and no
\* row or block built from the zero count reaches the feature table.
C4_ZeroCountFails ==
    (calls > 0 /\ HasZeroCount) =>
        raised = "no valid voxels" /\ ~HoldsByZero(features)

\* what the claim's table of one extract() holds for sample r
ClaimEntry(r) ==
    IF pc = "LBP_3D" THEN StaticRow(samples[r], gridSize).row
    ELSE TemporalBlock(samples[r])

LabelOf(e) == IF pc = "LBP_3D" THEN e[64] ELSE e[2]

\* C10: every extract() call, the first and any repeated one, returns exactly
\* n entries for n samples, entry r built from sample r and carrying its Label
\* (static: as the last column), in input order.
C10_OneEntryPerSample ==
    calls > 0 =>
        /\ Len(returned) = Len(samples)
        /\ \A r \in 1 .. Len(returned) :
              r <= Len(samples) =>
                  /\ returned[r] = ClaimEntry(r)
                  /\ LabelOf(returned[r]) = samples[r].label

====
